---- MODULE Spec2Model ----
(***************************************************************************)
(* Model of mlflow/projects/__init__.py: the run lifecycle manager         *)
(* (run, _run, _wait_for, _maybe_set_run_terminated), the tracking record  *)
(* it creates or attaches to, and the detached re-invocation that the      *)
(* asynchronous local mode spawns.                                         *)
(***************************************************************************)
EXTENDS Integers, Sequences, FiniteSets, TLC

\* Number of run records that exist in the tracking service before run() is
\* called (candidates for the run_id argument).
NumExistingRuns == 1

None == "None"
\* The absent run id (run_id=None), among run ids 1, 2, ...
NoRunId == 0
\* The manifest before load_project has read it.
NoProject == [docker_env |-> "not loaded", name |-> FALSE]

\* The two invocations of run(): the caller's, and the `mlflow run --run-id`
\* subprocess that _invoke_mlflow_run_subprocess starts.
Invs == {"parent", "child"}

ExistingRuns == 1..NumExistingRuns
\* Room for one new record per invocation.
RunIds == 1..(NumExistingRuns + 2)

Backends == {None, "local", "databricks", "bogus"}
DockerEnvs == {None, "no_image", "image"}
\* work_dir: not a git repository; a repository with a remote; a repository
\* with a remote and a branch named as the requested version.
GitStates == {"none", "remote", "branch"}
ImageIds == {"sha_a", "sha_b"}

Terminal == {"FINISHED", "FAILED"}

VARIABLES
    pc,          \* position of each invocation in run()/_run()/_wait_for()
    args,        \* the arguments run() was called with
    experiment,  \* experiment_name / experiment_id of run()
    work_dir,    \* the fetched project directory (its git state)
    project,     \* the manifest read by load_project(work_dir)
    active_run,  \* _run: active_run (a run id)
    command,     \* _run: command, command_separator
    env_names,   \* _get_or_create_conda_env: env_names
    handle,      \* the SubmittedRun returned by _run
    wait,        \* _wait_for: active_run, wait() result, cur_status, where the
                 \* interrupt arrived, and the cancel / set_terminated / raise events
    exc,         \* the exception run() raised
    runs,        \* tracking service: run id -> record
    condaEnvs,   \* names listed by `conda env list`
    calls,       \* per invocation: number of tracking writes, image builds and
                 \* `conda env create` commands
    tagWrites,   \* per record and tag key: number of times the key was written
    conda_spec,  \* per invocation: contents of the conda yaml file and env_id
    fetch        \* _fetch_project: its arguments, locals and effects

vars == <<pc, args, experiment, work_dir, project, active_run, command, env_names, handle,
          wait, exc, runs, condaEnvs, calls, tagWrites, conda_spec, fetch>>

NoRun == [status |-> None, tags |-> <<>>]
NoArgs == [version |-> None, backend |-> None, parameters |-> None,
           use_conda |-> FALSE, synchronous |-> FALSE, run_id |-> NoRunId]
NoCommand == [fragments |-> <<>>, separator |-> None, joined |-> <<>>]
NoCalls == [create_run |-> 0, log_param |-> 0, set_tag |-> 0,
            set_terminated |-> 0, build |-> 0, provision |-> 0, conda_create |-> 0]
NoWait == [active_run |-> NoRunId, result |-> None, cur_status |-> None,
           interrupted |-> None, events |-> <<>>]

TagKeys == {"MLFLOW_USER", "MLFLOW_SOURCE_NAME", "MLFLOW_SOURCE_TYPE",
            "MLFLOW_PROJECT_ENTRY_POINT", "MLFLOW_GIT_COMMIT", "MLFLOW_PARENT_RUN_ID",
            "MLFLOW_GIT_REPO_URL", "LEGACY_MLFLOW_GIT_REPO_URL",
            "MLFLOW_GIT_BRANCH", "LEGACY_MLFLOW_GIT_BRANCH_NAME",
            "MLFLOW_PROJECT_ENV", "MLFLOW_DOCKER_IMAGE_NAME", "MLFLOW_DOCKER_IMAGE_ID"}

\* Python truthiness of the run_id argument (`if run_id:`).
Truthy(x) == x # NoRunId

\* Strings that the code takes apart or concatenates are sequences of characters.
RECURSIVE SeqsUpTo(_, _)
SeqsUpTo(S, n) ==
    IF n = 0 THEN {<<>>}
    ELSE LET shorter == SeqsUpTo(S, n - 1)
         IN  shorter \cup {Append(q, c) : q \in shorter, c \in S}

\* The conda yaml file of the project run by both invocations; _run passes no
\* env_id (line 133), and a falsy env_id is the empty string.
ProjectCondaSpec == [contents |-> <<"a">>, env_id |-> <<>>]

\* _fetch_project before it is called.
NoFetch == [uri |-> <<>>, version |-> None, force_tempdir |-> FALSE,
            parsed_uri |-> <<>>, subdirectory |-> <<>>, use_temp_dst_dir |-> FALSE,
            dst_dir |-> <<>>, effects |-> <<>>, res |-> <<>>, exists |-> FALSE]

----------------------------------------------------------------------------
\* Tracking collaborator (mlflow.tracking.MlflowClient).

\* The tags _create_run passes to create_run.
CreateRunTags(git, nested) ==
    LET base == [k \in {"MLFLOW_USER", "MLFLOW_SOURCE_NAME", "MLFLOW_SOURCE_TYPE",
                        "MLFLOW_PROJECT_ENTRY_POINT"} |-> "set"]
        withCommit == IF git # "none" THEN base @@ ("MLFLOW_GIT_COMMIT" :> "commit")
                      ELSE base
    IN  IF nested THEN withCommit @@ ("MLFLOW_PARENT_RUN_ID" :> "parent")
        ELSE withCommit

\* The id create_run gives the new record: the first one not in use.
FreshRunId(rs) == CHOOSE r \in RunIds : rs[r] = NoRun /\ \A q \in 1..(r - 1) : rs[q] # NoRun

\* create_run(experiment_id, tags): a new record, RUNNING, holding the tags.
create_run(rs, r, tags) == [rs EXCEPT ![r] = [status |-> "RUNNING", tags |-> tags]]

\* set_tag(run_id, key, value) for each key of the function kv: the key is
\* written, whether present or not.
set_tag(rs, r, kv) == [rs EXCEPT ![r].tags = kv @@ rs[r].tags]

\* set_terminated(run_id, status): writes the status it is given.
set_terminated(rs, r, status) == [rs EXCEPT ![r].status = status]

\* RunStatus.is_terminated
is_terminated(status) == status \in Terminal

CountTag(tw, r, keys) ==
    [tw EXCEPT ![r] = [k \in TagKeys |-> IF k \in keys THEN tw[r][k] + 1 ELSE tw[r][k]]]

Bump(i, field) == calls' = [calls EXCEPT ![i][field] = @ + 1]

----------------------------------------------------------------------------
ParentArgs ==
    [version : {None, "version"}, backend : Backends, parameters : {"valid", "invalid"}, use_conda : BOOLEAN,
     synchronous : BOOLEAN, run_id : {NoRunId} \cup ExistingRuns]

Init ==
    /\ pc = [i \in Invs |-> IF i = "parent" THEN "run" ELSE "idle"]
    /\ args \in [Invs -> ParentArgs \cup {NoArgs}]
    /\ args["parent"] \in ParentArgs
    /\ args["child"] = NoArgs
    /\ experiment \in [Invs -> [name : {None, "exp"}, id : {None, "0"}]]
    /\ experiment["child"] = [name |-> None, id |-> None]
    /\ work_dir = None
    /\ project = NoProject
    /\ active_run = [i \in Invs |-> NoRunId]
    /\ command = [i \in Invs |-> NoCommand]
    /\ env_names = [i \in Invs |-> {}]
    /\ handle = [i \in Invs |-> None]
    /\ wait = [i \in Invs |-> NoWait]
    /\ exc = [i \in Invs |-> None]
    /\ runs = [r \in RunIds |->
                 IF r \in ExistingRuns
                 THEN [status |-> "RUNNING", tags |-> CreateRunTags("none", FALSE)]
                 ELSE NoRun]
    /\ condaEnvs = {}
    /\ calls = [i \in Invs |-> NoCalls]
    /\ tagWrites = [r \in RunIds |-> [k \in TagKeys |->
                      IF r \in ExistingRuns /\ k \in DOMAIN CreateRunTags("none", FALSE)
                      THEN 1 ELSE 0]]
    /\ conda_spec = [i \in Invs |-> ProjectCondaSpec]
    /\ fetch = NoFetch

Raise(i, e) ==
    /\ pc' = [pc EXCEPT ![i] = "raised"]
    /\ exc' = [exc EXCEPT ![i] = e]

Goto(i, to) == pc' = [pc EXCEPT ![i] = to]

----------------------------------------------------------------------------
\* run(): lines 207-223.

\* run, lines 207-220: the backend configuration is read and, for the
\* databricks backend, validated; nothing is written.
RunStart(i) ==
    /\ pc[i] = "run"
    /\ Goto(i, "_resolve_experiment_id")
    /\ UNCHANGED <<args, experiment, work_dir, project, active_run, command, env_names, handle,
                   wait, exc, runs, condaEnvs, calls, tagWrites>>
    /\ UNCHANGED <<fetch, conda_spec>>

\* _resolve_experiment_id: both selectors given is an error; otherwise run()
\* rebinds experiment_id to the resolved id and reads the name no more.
ResolveExperimentId(i) ==
    /\ pc[i] = "_resolve_experiment_id"
    /\ IF experiment[i].name # None /\ experiment[i].id # None
       THEN /\ Raise(i, "experiment_conflict")
            /\ UNCHANGED experiment
       ELSE /\ Goto(i, "_fetch_project")
            /\ experiment' = [experiment EXCEPT ![i] = [name |-> None, id |-> "0"]]
            /\ UNCHANGED exc
    /\ UNCHANGED <<args, work_dir, project, active_run, command, env_names, handle,
                   wait, runs, condaEnvs, calls, tagWrites>>
    /\ UNCHANGED <<fetch, conda_spec>>

----------------------------------------------------------------------------
\* _run(): lines 81-150.

\* _run line 82: the project is fetched into work_dir. A version names a
\* branch only in a work_dir fetched from Git; an archive fetched with a
\* version gives a work_dir that is no repository (FetchZip). The detached
\* invocation is given the parent's work_dir as its uri.
FetchProject(i) ==
    /\ pc[i] = "_fetch_project"
    /\ IF work_dir = None
       THEN \E g \in GitStates :
                /\ args[i].version = None => g # "branch"
                /\ work_dir' = g
       ELSE UNCHANGED work_dir
    /\ Goto(i, "load_project")
    /\ UNCHANGED <<args, experiment, project, active_run, command, env_names, handle,
                   wait, exc, runs, condaEnvs, calls, tagWrites>>
    /\ UNCHANGED <<fetch, conda_spec>>

\* _run line 83: the manifest of work_dir.
LoadProject(i) ==
    /\ pc[i] = "load_project"
    /\ IF project = NoProject
       THEN \E d \in DockerEnvs, n \in BOOLEAN :
                project' = [docker_env |-> d, name |-> n]
       ELSE UNCHANGED project
    /\ Goto(i, "_validate_execution_environment")
    /\ UNCHANGED <<args, experiment, work_dir, active_run, command, env_names, handle,
                   wait, exc, runs, condaEnvs, calls, tagWrites>>
    /\ UNCHANGED <<fetch, conda_spec>>

\* _validate_execution_environment
ValidateExecutionEnvironment(i) ==
    /\ pc[i] = "_validate_execution_environment"
    /\ IF project.docker_env # None /\ args[i].backend = "databricks"
       THEN Raise(i, "docker_on_databricks")
       ELSE Goto(i, "_validate_parameters") /\ UNCHANGED exc
    /\ UNCHANGED <<args, experiment, work_dir, project, active_run, command, env_names, handle,
                   wait, runs, condaEnvs, calls, tagWrites>>
    /\ UNCHANGED <<fetch, conda_spec>>

\* ValidateParameters without the validation: the parameters are passed on.
ValidateParameters_Unchecked(i) ==
    /\ pc[i] = "_validate_parameters"
    /\ Goto(i, "resolve_run")
    /\ UNCHANGED <<args, experiment, work_dir, project, active_run, command, env_names,
                   handle, wait, exc, runs, condaEnvs, calls, tagWrites>>
    /\ UNCHANGED <<fetch, conda_spec>>

\* _run line 85: the entry point's schema validation of the parameters.
ValidateParameters(i) ==
    /\ pc[i] = "_validate_parameters"
    /\ IF args[i].parameters = "invalid"
       THEN Raise(i, "invalid_parameters")
       ELSE Goto(i, "resolve_run") /\ UNCHANGED exc
    /\ UNCHANGED <<args, experiment, work_dir, project, active_run, command, env_names, handle,
                   wait, runs, condaEnvs, calls, tagWrites>>
    /\ UNCHANGED <<fetch, conda_spec>>

\* _run lines 86-87: a supplied run id is fetched, not created.
GetRun(i) ==
    /\ pc[i] = "resolve_run"
    /\ Truthy(args[i].run_id)
    /\ active_run' = [active_run EXCEPT ![i] = args[i].run_id]
    /\ Goto(i, "log_param")
    /\ UNCHANGED <<args, experiment, work_dir, project, command, env_names, handle,
                   wait, exc, runs, condaEnvs, calls, tagWrites>>
    /\ UNCHANGED <<fetch, conda_spec>>

\* _run lines 88-89 and _create_run: one create_run call with the provenance tags.
CreateRun(i) ==
    /\ pc[i] = "resolve_run"
    /\ ~Truthy(args[i].run_id)
    /\ \E nested \in BOOLEAN :
         /\ runs' = create_run(runs, FreshRunId(runs), CreateRunTags(work_dir, nested))
         /\ tagWrites' = CountTag(tagWrites, FreshRunId(runs),
                                  DOMAIN CreateRunTags(work_dir, nested))
    /\ active_run' = [active_run EXCEPT ![i] = FreshRunId(runs)]
    /\ Bump(i, "create_run")
    /\ Goto(i, "log_param")
    /\ UNCHANGED <<args, experiment, work_dir, project, command, env_names, handle,
                   wait, exc, condaEnvs>>
    /\ UNCHANGED <<fetch, conda_spec>>

\* _run lines 93-96: the parameters are logged to the record.
LogParams(i) ==
    /\ pc[i] = "log_param"
    /\ Bump(i, "log_param")
    /\ Goto(i, "tag_repo_url")
    /\ UNCHANGED <<args, experiment, work_dir, project, active_run, command, env_names, handle,
                   wait, exc, runs, condaEnvs, tagWrites>>
    /\ UNCHANGED <<fetch, conda_spec>>

\* tracking.MlflowClient().set_tag(active_run.info.run_id, key, value) for
\* each key of the function kv.
SetTags(i, kv) ==
    /\ runs' = set_tag(runs, active_run[i], kv)
    /\ tagWrites' = CountTag(tagWrites, active_run[i], DOMAIN kv)

\* _run lines 98-101
TagRepoUrl(i) ==
    /\ pc[i] = "tag_repo_url"
    /\ IF work_dir # "none"
       THEN /\ SetTags(i, [k \in {"MLFLOW_GIT_REPO_URL", "LEGACY_MLFLOW_GIT_REPO_URL"}
                            |-> "url"])
            /\ calls' = [calls EXCEPT ![i].set_tag = @ + 2]
       ELSE UNCHANGED <<runs, tagWrites, calls>>
    /\ Goto(i, "tag_branch")
    /\ UNCHANGED <<args, experiment, work_dir, project, active_run, command, env_names, handle,
                   wait, exc, condaEnvs>>
    /\ UNCHANGED <<fetch, conda_spec>>

\* _is_valid_branch_name
_is_valid_branch_name(dir, version) ==
    IF version # None THEN dir = "branch" ELSE FALSE

\* _run lines 103-106. With a version, _is_valid_branch_name opens the
\* repository of work_dir outside its try block (line 318), which raises when
\* work_dir is not in a repository.
TagBranch(i) ==
    /\ pc[i] = "tag_branch"
    /\ IF args[i].version # None /\ work_dir = "none"
       THEN /\ Raise(i, "InvalidGitRepositoryError")
            /\ UNCHANGED <<runs, tagWrites, calls>>
       ELSE /\ IF _is_valid_branch_name(work_dir, args[i].version)
               THEN /\ SetTags(i, [k \in {"MLFLOW_GIT_BRANCH", "LEGACY_MLFLOW_GIT_BRANCH_NAME"}
                                    |-> args[i].version])
                    /\ calls' = [calls EXCEPT ![i].set_tag = @ + 2]
               ELSE UNCHANGED <<runs, tagWrites, calls>>
            /\ Goto(i, "backend")
            /\ UNCHANGED exc
    /\ UNCHANGED <<args, experiment, work_dir, project, active_run, command, env_names, handle,
                   wait, condaEnvs>>
    /\ UNCHANGED <<fetch, conda_spec>>

\* _run lines 108, 115-117, 120, 130, 148: the backend branch, and for the local
\* backend the environment branch (docker_env takes precedence over conda).
SelectBackend(i) ==
    /\ pc[i] = "backend"
    /\ IF args[i].backend = "databricks"
       THEN Goto(i, "run_databricks") /\ UNCHANGED command
       ELSE IF args[i].backend = "local" \/ args[i].backend = None
       THEN /\ command' = [command EXCEPT ![i] =
                             [fragments |-> <<>>, separator |-> " ", joined |-> <<>>]]
            /\ IF project.docker_env # None THEN Goto(i, "docker_set_tag")
               ELSE IF args[i].use_conda THEN Goto(i, "conda_set_tag")
               ELSE Goto(i, "launch")
       ELSE Goto(i, "unsupported_backend") /\ UNCHANGED command
    /\ UNCHANGED <<args, experiment, work_dir, project, active_run, env_names, handle,
                   wait, exc, runs, condaEnvs, calls, tagWrites>>
    /\ UNCHANGED <<fetch, conda_spec>>

\* _run lines 109-113: the remote job is submitted and its handle returned.
RunDatabricks(i) ==
    /\ pc[i] = "run_databricks"
    /\ handle' = [handle EXCEPT ![i] = "remote"]
    /\ Goto(i, "run_return")
    /\ UNCHANGED <<args, experiment, work_dir, project, active_run, command, env_names,
                   wait, exc, runs, condaEnvs, calls, tagWrites>>
    /\ UNCHANGED <<fetch, conda_spec>>

\* _run lines 148-150
UnsupportedBackend(i) ==
    /\ pc[i] = "unsupported_backend"
    /\ Raise(i, "unsupported_backend")
    /\ UNCHANGED <<args, experiment, work_dir, project, active_run, command, env_names,
                   handle, wait, runs, condaEnvs, calls, tagWrites>>
    /\ UNCHANGED <<fetch, conda_spec>>

\* _run line 121
DockerSetTag(i) ==
    /\ pc[i] = "docker_set_tag"
    /\ SetTags(i, "MLFLOW_PROJECT_ENV" :> "docker")
    /\ Bump(i, "set_tag")
    /\ Goto(i, "_validate_docker_env")
    /\ UNCHANGED <<args, experiment, work_dir, project, active_run, command, env_names,
                   handle, wait, exc, condaEnvs>>
    /\ UNCHANGED <<fetch, conda_spec>>

\* _validate_docker_env
ValidateDockerEnv(i) ==
    /\ pc[i] = "_validate_docker_env"
    /\ IF project.docker_env = "no_image"
       THEN Raise(i, "docker_no_image")
       ELSE Goto(i, "_validate_docker_installation") /\ UNCHANGED exc
    /\ UNCHANGED <<args, experiment, work_dir, project, active_run, command, env_names,
                   handle, wait, runs, condaEnvs, calls, tagWrites>>
    /\ UNCHANGED <<fetch, conda_spec>>

\* _validate_docker_installation: the docker executable is found or not.
ValidateDockerInstallation(i) ==
    /\ pc[i] = "_validate_docker_installation"
    /\ \E installed \in BOOLEAN :
         IF installed
         THEN Goto(i, "_build_docker_image") /\ UNCHANGED exc
         ELSE Raise(i, "docker_not_found")
    /\ UNCHANGED <<args, experiment, work_dir, project, active_run, command, env_names,
                   handle, wait, runs, condaEnvs, calls, tagWrites>>
    /\ UNCHANGED <<fetch, conda_spec>>

\* _build_docker_image: the name check (704), the short commit of work_dir
\* (709, a TypeError when work_dir has no commit), the build (717-724) and the
\* two image tags (729-735).
BuildDockerImage(i) ==
    /\ pc[i] = "_build_docker_image"
    /\ IF ~project.name
       THEN Raise(i, "project_no_name") /\ UNCHANGED <<runs, tagWrites, calls>>
       ELSE IF work_dir = "none"
       THEN Raise(i, "TypeError") /\ UNCHANGED <<runs, tagWrites, calls>>
       ELSE /\ \E id \in ImageIds :
                 SetTags(i, "MLFLOW_DOCKER_IMAGE_NAME" :> "tag_name" @@
                            "MLFLOW_DOCKER_IMAGE_ID" :> id)
            /\ calls' = [calls EXCEPT ![i].set_tag = @ + 2, ![i].build = @ + 1]
            /\ Goto(i, "_get_docker_command")
            /\ UNCHANGED exc
    /\ UNCHANGED <<args, experiment, work_dir, project, active_run, command, env_names,
                   handle, wait, condaEnvs>>
    /\ UNCHANGED <<fetch, conda_spec>>

\* _get_docker_command: docker run --rm -e <run env vars> <image>. A command
\* fragment is the tuple of its words.
_get_docker_command(image) ==
    << <<"docker">>, <<"run">>, <<"--rm">>, <<"-e">>, <<"env_vars">>, <<image>> >>

\* _run line 127
GetDockerCommand(i) ==
    /\ pc[i] = "_get_docker_command"
    /\ command' = [command EXCEPT ![i].fragments = @ \o _get_docker_command("tag_name")]
    /\ Goto(i, "launch")
    /\ UNCHANGED <<args, experiment, work_dir, project, active_run, env_names, handle,
                   wait, exc, runs, condaEnvs, calls, tagWrites>>
    /\ UNCHANGED <<fetch, conda_spec>>

\* _run lines 131-134 with the command built without the call of line 133.
CondaSetTag_SkipProvision(i) ==
    /\ pc[i] = "conda_set_tag"
    /\ SetTags(i, "MLFLOW_PROJECT_ENV" :> "conda")
    /\ Bump(i, "set_tag")
    /\ command' = [command EXCEPT ![i].separator = " && "]
    /\ Goto(i, "_get_conda_command")
    /\ UNCHANGED <<args, experiment, work_dir, project, active_run, env_names,
                   handle, wait, exc, condaEnvs>>
    /\ UNCHANGED <<fetch, conda_spec>>

\* _run lines 131-132 without the assignment of command_separator.
CondaSetTag_SpaceSeparator(i) ==
    /\ pc[i] = "conda_set_tag"
    /\ SetTags(i, "MLFLOW_PROJECT_ENV" :> "conda")
    /\ Bump(i, "set_tag")
    /\ Goto(i, "_get_or_create_conda_env")
    /\ UNCHANGED <<args, experiment, work_dir, project, active_run, command, env_names,
                   handle, wait, exc, condaEnvs>>
    /\ UNCHANGED <<fetch, conda_spec>>

\* _run lines 131-132
CondaSetTag(i) ==
    /\ pc[i] = "conda_set_tag"
    /\ SetTags(i, "MLFLOW_PROJECT_ENV" :> "conda")
    /\ Bump(i, "set_tag")
    /\ command' = [command EXCEPT ![i].separator = " && "]
    /\ Goto(i, "_get_or_create_conda_env")
    /\ UNCHANGED <<args, experiment, work_dir, project, active_run, env_names,
                   handle, wait, exc, condaEnvs>>
    /\ UNCHANGED <<fetch, conda_spec>>

\* hashlib.sha1(...).hexdigest(): equal inputs give equal digests; distinct
\* inputs of the modelled length give distinct digests.
sha1(contents) == <<"sha1">> \o contents

\* _get_conda_env_name lines 408-411: env_id, when truthy, is appended to the
\* file's contents before hashing.
_get_conda_env_name(conda_env_contents, env_id) ==
    <<"mlflow-">> \o sha1(IF env_id # <<>> THEN conda_env_contents \o env_id
                           ELSE conda_env_contents)

\* line 453
project_env_name(i) == _get_conda_env_name(conda_spec[i].contents, conda_spec[i].env_id)

\* _get_or_create_conda_env lines 441-452: the conda executable is found or
\* not; the existing environments are listed.
CondaEnvList(i) ==
    /\ pc[i] = "_get_or_create_conda_env"
    /\ \E found \in BOOLEAN :
         IF found
         THEN /\ env_names' = [env_names EXCEPT ![i] = condaEnvs]
              /\ Goto(i, "conda_env_create")
              /\ UNCHANGED exc
         ELSE Raise(i, "conda_not_found") /\ UNCHANGED env_names
    /\ Bump(i, "provision")
    /\ UNCHANGED <<args, experiment, work_dir, project, active_run, command,
                   handle, wait, runs, condaEnvs, tagWrites>>
    /\ UNCHANGED <<fetch, conda_spec>>

\* process.exec_cmd of `conda env create -n <name>`: the name is in the
\* registry afterwards. When the name is already there (another call created it
\* after this call listed), conda either reports the existing prefix, and
\* exec_cmd raises, or builds over it.
CreateOutcomes(name) == IF name \in condaEnvs THEN {"created", "ShellCommandException"}
                        ELSE {"created"}

\* _get_or_create_conda_env lines 453-462, with the create made whatever the
\* listing says.
CondaEnvCreate_Always(i) ==
    /\ pc[i] = "conda_env_create"
    /\ condaEnvs' = condaEnvs \cup {project_env_name(i)}
    /\ Bump(i, "conda_create")
    /\ Goto(i, "_get_conda_command")
    /\ UNCHANGED <<args, experiment, work_dir, project, active_run, command, env_names,
                   handle, wait, exc, runs, tagWrites>>
    /\ UNCHANGED <<fetch, conda_spec>>

\* _get_or_create_conda_env lines 453-462: created when not in the listing.
CondaEnvCreate(i) ==
    /\ pc[i] = "conda_env_create"
    /\ IF project_env_name(i) \notin env_names[i]
       THEN /\ condaEnvs' = condaEnvs \cup {project_env_name(i)}
            /\ Bump(i, "conda_create")
            /\ \E outcome \in CreateOutcomes(project_env_name(i)) :
                 IF outcome = "created"
                 THEN Goto(i, "_get_conda_command") /\ UNCHANGED exc
                 ELSE Raise(i, outcome)
       ELSE /\ Goto(i, "_get_conda_command")
            /\ UNCHANGED <<condaEnvs, calls, exc>>
    /\ UNCHANGED <<args, experiment, work_dir, project, active_run, command, env_names,
                   handle, wait, runs, tagWrites>>
    /\ UNCHANGED <<fetch, conda_spec>>

\* _get_conda_command: `source activate <name>` (lines 612-619)
_get_conda_command(conda_env_name) == << <<"source", "activate", conda_env_name>> >>

\* _run line 134
GetCondaCommand(i) ==
    /\ pc[i] = "_get_conda_command"
    /\ command' = [command EXCEPT ![i].fragments =
                     @ \o _get_conda_command(project_env_name(i))]
    /\ Goto(i, "launch")
    /\ UNCHANGED <<args, experiment, work_dir, project, active_run, env_names, handle,
                   wait, exc, runs, condaEnvs, calls, tagWrites>>
    /\ UNCHANGED <<fetch, conda_spec>>

\* str.join: the fragments' words with the separator between fragments.
RECURSIVE Join(_, _)
Join(fragments, separator) ==
    IF fragments = <<>> THEN <<>>
    ELSE IF Len(fragments) = 1 THEN Head(fragments)
    ELSE Head(fragments) \o <<separator>> \o Join(Tail(fragments), separator)

\* _get_entry_point_command: one fragment, the entry point's command line.
_get_entry_point_command == << <<"entry_point_command">> >>

\* _run lines 138-140: in synchronous mode the entry point command is appended
\* and the fragments are joined.
EntryPointCommand(i) ==
    /\ pc[i] = "launch"
    /\ args[i].synchronous
    /\ command' = [command EXCEPT
                     ![i].fragments = @ \o _get_entry_point_command,
                     ![i].joined = Join(command[i].fragments \o _get_entry_point_command,
                                        command[i].separator)]
    /\ Goto(i, "_run_entry_point")
    /\ UNCHANGED <<args, experiment, work_dir, project, active_run, env_names, handle,
                   wait, exc, runs, condaEnvs, calls, tagWrites>>
    /\ UNCHANGED <<fetch, conda_spec>>

\* The commands of a command line, split at its && operators.
RECURSIVE SplitAnd(_)
SplitAnd(words) ==
    IF \A k \in DOMAIN words : words[k] # " && " THEN <<words>>
    ELSE LET k == CHOOSE n \in DOMAIN words :
                    words[n] = " && " /\ \A m \in 1..(n - 1) : words[m] # " && "
         IN  <<SubSeq(words, 1, k - 1)>> \o SplitAnd(SubSeq(words, k + 1, Len(words)))

\* _run_entry_point line 513, `bash -c command`: the commands bash runs, given
\* whether the first one succeeds; A && B runs B only after A succeeded.
BashRuns(words, first_ok) ==
    IF first_ok THEN SplitAnd(words) ELSE <<Head(SplitAnd(words))>>

\* _run_entry_point: the command is started in a child process.
RunEntryPoint(i) ==
    /\ pc[i] = "_run_entry_point"
    /\ handle' = [handle EXCEPT ![i] = "process"]
    /\ Goto(i, "run_return")
    /\ UNCHANGED <<args, experiment, work_dir, project, active_run, command, env_names,
                   wait, exc, runs, condaEnvs, calls, tagWrites>>
    /\ UNCHANGED <<fetch, conda_spec>>

\* _build_mlflow_run_cmd without the --run-id option.
_build_mlflow_run_cmd_NoRunId(use_conda, run_id, parameters) ==
    [run_id |-> NoRunId, no_conda |-> ~use_conda, parameters |-> parameters]

\* _build_mlflow_run_cmd: mlflow run <uri> -e <entry_point> --run-id <run_id>
\* [--no-conda] -P ...
_build_mlflow_run_cmd(use_conda, run_id, parameters) ==
    [run_id |-> run_id, no_conda |-> ~use_conda, parameters |-> parameters]

\* The `mlflow run` command line: the arguments run() is called with in the
\* subprocess. The command blocks until the run ends; options that are not
\* given keep their defaults.
MlflowRunCli(mlflow_run_arr) ==
    [version |-> None, backend |-> "local", parameters |-> mlflow_run_arr.parameters,
     use_conda |-> ~mlflow_run_arr.no_conda, synchronous |-> TRUE,
     run_id |-> mlflow_run_arr.run_id]

\* _run lines 144-147, _invoke_mlflow_run_subprocess, _run_mlflow_run_cmd: the
\* `mlflow run` subprocess is started as the leader of its own process group.
InvokeMlflowRunSubprocess(i) ==
    /\ pc[i] = "launch"
    /\ ~args[i].synchronous
    /\ pc["child"] = "idle"
    /\ args' = [args EXCEPT !["child"] =
                  MlflowRunCli(_build_mlflow_run_cmd(args[i].use_conda, active_run[i],
                                                     args[i].parameters))]
    /\ handle' = [handle EXCEPT ![i] = "detached"]
    /\ pc' = [pc EXCEPT ![i] = "run_return", !["child"] = "run"]
    /\ UNCHANGED <<experiment, work_dir, project, active_run, command, env_names,
                   wait, exc, runs, condaEnvs, calls, tagWrites>>
    /\ UNCHANGED <<fetch, conda_spec>>

\* RunReturn waiting in both modes.
RunReturn_AlwaysWaits(i) ==
    /\ pc[i] = "run_return"
    /\ Goto(i, "_wait_for")
    /\ UNCHANGED <<args, experiment, work_dir, project, active_run, command, env_names,
                   handle, wait, exc, runs, condaEnvs, calls, tagWrites>>
    /\ UNCHANGED <<fetch, conda_spec>>

\* run lines 229-231: only the synchronous mode waits.
RunReturn(i) ==
    /\ pc[i] = "run_return"
    /\ IF args[i].synchronous THEN Goto(i, "_wait_for") ELSE Goto(i, "returned")
    /\ UNCHANGED <<args, experiment, work_dir, project, active_run, command, env_names,
                   handle, wait, exc, runs, condaEnvs, calls, tagWrites>>
    /\ UNCHANGED <<fetch, conda_spec>>

----------------------------------------------------------------------------
\* _wait_for and _maybe_set_run_terminated.

\* _wait_for line 241: inside the try block, the record of the handle's run id
\* is fetched into active_run.
WaitGetRun(i) ==
    /\ pc[i] = "_wait_for"
    /\ wait' = [wait EXCEPT ![i].active_run = active_run[i]]
    /\ Goto(i, "wait")
    /\ UNCHANGED <<args, experiment, work_dir, project, active_run, command, env_names,
                   handle, exc, runs, condaEnvs, calls, tagWrites>>
    /\ UNCHANGED <<fetch, conda_spec>>

\* _wait_for line 242: submitted_run_obj.wait() reports success or failure.
HandleWait(i) ==
    /\ pc[i] = "wait"
    /\ \E success \in {"True", "False"} : wait' = [wait EXCEPT ![i].result = success]
    /\ Goto(i, "maybe_fetch")
    /\ UNCHANGED <<args, experiment, work_dir, project, active_run, command, env_names,
                   handle, exc, runs, condaEnvs, calls, tagWrites>>
    /\ UNCHANGED <<fetch, conda_spec>>

\* The events recorded of _wait_for: "cancel", the status fetched again by
\* _maybe_set_run_terminated, and the status given to set_terminated.
GetRunEvent(status) ==
    CASE status = "RUNNING" -> "get_run RUNNING"
      [] status = "FINISHED" -> "get_run FINISHED"
      [] status = "FAILED" -> "get_run FAILED"

\* _maybe_set_run_terminated lines 470-475: nothing is done without a record;
\* the current status is fetched again and a terminated record is left alone.
MaybeFetch(i, toSet, toDone) ==
    IF wait[i].active_run = NoRunId
    THEN Goto(i, toDone) /\ UNCHANGED wait
    ELSE /\ wait' = [wait EXCEPT
                       ![i].cur_status = runs[wait[i].active_run].status,
                       ![i].events = Append(@, GetRunEvent(runs[wait[i].active_run].status))]
         /\ IF is_terminated(runs[wait[i].active_run].status)
            THEN Goto(i, toDone)
            ELSE Goto(i, toSet)

\* _maybe_set_run_terminated line 476
MaybeSet(i, status, toDone) ==
    /\ runs' = set_terminated(runs, wait[i].active_run, status)
    /\ wait' = [wait EXCEPT ![i].events = Append(@, status)]
    /\ Bump(i, "set_terminated")
    /\ Goto(i, toDone)

\* The status _wait_for reports for the result of wait() (lines 244, 246).
WaitStatus(i) == IF wait[i].result = "True" THEN "FINISHED" ELSE "FAILED"

\* _wait_for lines 244 and 246, first half of _maybe_set_run_terminated
WaitMaybeFetch(i) ==
    /\ pc[i] = "maybe_fetch"
    /\ MaybeFetch(i, "maybe_set", "wait_exit")
    /\ UNCHANGED <<args, experiment, work_dir, project, active_run, command, env_names,
                   handle, exc, runs, condaEnvs, calls, tagWrites>>
    /\ UNCHANGED <<fetch, conda_spec>>

\* _wait_for lines 244 and 246, second half of _maybe_set_run_terminated
WaitMaybeSet(i) ==
    /\ pc[i] = "maybe_set"
    /\ MaybeSet(i, WaitStatus(i), "wait_exit")
    /\ UNCHANGED <<args, experiment, work_dir, project, active_run, command, env_names,
                   handle, exc, condaEnvs, tagWrites>>
    /\ UNCHANGED <<fetch, conda_spec>>

\* WaitExit without the raise of line 247.
WaitExit_NoRaise(i) ==
    /\ pc[i] = "wait_exit"
    /\ Goto(i, "returned")
    /\ UNCHANGED <<args, experiment, work_dir, project, active_run, command, env_names,
                   handle, wait, exc, runs, condaEnvs, calls, tagWrites>>
    /\ UNCHANGED <<fetch, conda_spec>>

\* _wait_for: the try block is left, by returning after success (244) or by
\* raising the ExecutionException after failure (247).
WaitExit(i) ==
    /\ pc[i] = "wait_exit"
    /\ IF wait[i].result = "True"
       THEN Goto(i, "returned") /\ UNCHANGED exc
       ELSE Raise(i, "ExecutionException")
    /\ UNCHANGED <<args, experiment, work_dir, project, active_run, command, env_names,
                   handle, wait, runs, condaEnvs, calls, tagWrites>>
    /\ UNCHANGED <<fetch, conda_spec>>

\* The positions inside the try block of _wait_for (lines 240-247).
TryBlock == {"_wait_for", "wait", "maybe_fetch", "maybe_set", "wait_exit"}

\* A KeyboardInterrupt is delivered inside the try block: control passes to
\* the except clause (line 248).
KeyboardInterrupt(i) ==
    /\ pc[i] \in TryBlock
    /\ wait[i].interrupted = None
    /\ wait' = [wait EXCEPT ![i].interrupted = pc[i]]
    /\ Goto(i, "except_cancel")
    /\ UNCHANGED <<args, experiment, work_dir, project, active_run, command, env_names,
                   handle, exc, runs, condaEnvs, calls, tagWrites>>
    /\ UNCHANGED <<fetch, conda_spec>>

\* ExceptCancel without the call of cancel().
ExceptCancel_NoCancel(i) ==
    /\ pc[i] = "except_cancel"
    /\ Goto(i, "except_fetch")
    /\ UNCHANGED <<args, experiment, work_dir, project, active_run, command, env_names,
                   handle, wait, exc, runs, condaEnvs, calls, tagWrites>>
    /\ UNCHANGED <<fetch, conda_spec>>

\* _wait_for line 250
ExceptCancel(i) ==
    /\ pc[i] = "except_cancel"
    /\ wait' = [wait EXCEPT ![i].events = Append(@, "cancel")]
    /\ Goto(i, "except_fetch")
    /\ UNCHANGED <<args, experiment, work_dir, project, active_run, command, env_names,
                   handle, exc, runs, condaEnvs, calls, tagWrites>>
    /\ UNCHANGED <<fetch, conda_spec>>

\* _wait_for line 251, first half of _maybe_set_run_terminated
ExceptMaybeFetch(i) ==
    /\ pc[i] = "except_fetch"
    /\ MaybeFetch(i, "except_set", "except_raise")
    /\ UNCHANGED <<args, experiment, work_dir, project, active_run, command, env_names,
                   handle, exc, runs, condaEnvs, calls, tagWrites>>
    /\ UNCHANGED <<fetch, conda_spec>>

\* _wait_for line 251, second half of _maybe_set_run_terminated
ExceptMaybeSet(i) ==
    /\ pc[i] = "except_set"
    /\ MaybeSet(i, "FAILED", "except_raise")
    /\ UNCHANGED <<args, experiment, work_dir, project, active_run, command, env_names,
                   handle, exc, condaEnvs, tagWrites>>
    /\ UNCHANGED <<fetch, conda_spec>>

\* _wait_for line 252
ExceptRaise(i) ==
    /\ pc[i] = "except_raise"
    /\ Raise(i, "KeyboardInterrupt")
    /\ UNCHANGED <<args, experiment, work_dir, project, active_run, command, env_names,
                   handle, wait, runs, condaEnvs, calls, tagWrites>>
    /\ UNCHANGED <<fetch, conda_spec>>

----------------------------------------------------------------------------
\* Once an invocation attached to the record has launched its handle, the
\* launched user code, or another client attached to the same run id, may end
\* the run itself (mlflow.end_run): it only terminates a running record.
UserCodeEndsRun ==
    /\ \E r \in RunIds, status \in Terminal :
         /\ \E i \in Invs : active_run[i] = r /\ handle[i] # None
         /\ runs[r].status = "RUNNING"
         /\ runs' = set_terminated(runs, r, status)
    /\ UNCHANGED <<pc, args, experiment, work_dir, project, active_run, command,
                   env_names, handle, wait, exc, condaEnvs, calls, tagWrites>>
    /\ UNCHANGED <<fetch, conda_spec>>

Step(i) ==
    \/ RunStart(i) \/ ResolveExperimentId(i)
    \/ FetchProject(i) \/ LoadProject(i)
    \/ ValidateExecutionEnvironment(i) \/ ValidateParameters(i)
    \/ GetRun(i) \/ CreateRun(i)
    \/ LogParams(i) \/ TagRepoUrl(i) \/ TagBranch(i)
    \/ SelectBackend(i) \/ RunDatabricks(i) \/ UnsupportedBackend(i)
    \/ DockerSetTag(i) \/ ValidateDockerEnv(i) \/ ValidateDockerInstallation(i)
    \/ BuildDockerImage(i) \/ GetDockerCommand(i)
    \/ CondaSetTag(i) \/ CondaEnvList(i) \/ CondaEnvCreate(i) \/ GetCondaCommand(i)
    \/ EntryPointCommand(i) \/ RunEntryPoint(i) \/ InvokeMlflowRunSubprocess(i)
    \/ RunReturn(i)
    \/ WaitGetRun(i) \/ HandleWait(i) \/ WaitMaybeFetch(i) \/ WaitMaybeSet(i)
    \/ WaitExit(i) \/ KeyboardInterrupt(i)
    \/ ExceptCancel(i) \/ ExceptMaybeFetch(i) \/ ExceptMaybeSet(i) \/ ExceptRaise(i)

Next == (\E i \in Invs : Step(i)) \/ UserCodeEndsRun

Spec == Init /\ [][Next]_vars

----------------------------------------------------------------------------
\* _get_or_create_conda_env called on its own, for conda yaml files and env_id
\* values of bounded length.
MaxEnvLen == 1
MaxProvisionCalls == 2

EnvChars == {"a", "b"}
CondaSpecs == [contents : SeqsUpTo(EnvChars, MaxEnvLen), env_id : SeqsUpTo(EnvChars, MaxEnvLen)]
\* an environment of the registry that no modelled spec hashes to
OtherEnv == <<"base">>

ProvisionInit(start) ==
    /\ pc = [i \in Invs |-> start]
    /\ args = [i \in Invs |-> NoArgs]
    /\ experiment = [i \in Invs |-> [name |-> None, id |-> None]]
    /\ work_dir = None
    /\ project = NoProject
    /\ active_run = [i \in Invs |-> NoRunId]
    /\ command = [i \in Invs |-> NoCommand]
    /\ env_names = [i \in Invs |-> {}]
    /\ handle = [i \in Invs |-> None]
    /\ wait = [i \in Invs |-> NoWait]
    /\ exc = [i \in Invs |-> None]
    /\ runs = [r \in RunIds |-> NoRun]
    /\ condaEnvs \in SUBSET {OtherEnv}
    /\ calls = [i \in Invs |-> NoCalls]
    /\ tagWrites = [r \in RunIds |-> [k \in TagKeys |-> 0]]
    /\ conda_spec \in [Invs -> CondaSpecs]
    /\ fetch = NoFetch

\* Two calls running at the same time: their list and create steps interleave
\* in every order.
InitProvisionConcurrent == ProvisionInit("_get_or_create_conda_env")

NextProvisionConcurrent == \E i \in Invs : CondaEnvList(i) \/ CondaEnvCreate(i)

SpecProvisionConcurrent == InitProvisionConcurrent /\ [][NextProvisionConcurrent]_vars

\* Calls made one after another: a call starts only when no call is running.
Provisioning(i) == pc[i] \in {"_get_or_create_conda_env", "conda_env_create"}

ProvisionCall(i) ==
    /\ pc[i] = "idle"
    /\ calls[i].provision < MaxProvisionCalls
    /\ \A j \in Invs : ~Provisioning(j)
    /\ Goto(i, "_get_or_create_conda_env")
    /\ UNCHANGED <<args, experiment, work_dir, project, active_run, command, env_names,
                   handle, wait, exc, runs, condaEnvs, calls, tagWrites, conda_spec, fetch>>

\* line 462: return project_env_name
ProvisionReturn(i) ==
    /\ pc[i] = "_get_conda_command"
    /\ Goto(i, "idle")
    /\ UNCHANGED <<args, experiment, work_dir, project, active_run, command, env_names,
                   handle, wait, exc, runs, condaEnvs, calls, tagWrites, conda_spec, fetch>>

InitProvisionSequential == ProvisionInit("idle")

NextProvisionSequential ==
    \E i \in Invs : ProvisionCall(i) \/ CondaEnvList(i) \/ CondaEnvCreate(i) \/ ProvisionReturn(i)

SpecProvisionSequential == InitProvisionSequential /\ [][NextProvisionSequential]_vars

----------------------------------------------------------------------------
\* Properties.

Exited(i) == pc[i] \in {"returned", "raised"}

\* The invocation has been through _wait_for.
LeftWaitFor(i) ==
    Exited(i) /\ (wait[i].active_run # NoRunId \/ wait[i].interrupted # None)

IsGetRun(e) == e \in {"get_run RUNNING", "get_run FINISHED", "get_run FAILED"}
IsSetTerminated(e) == e \in Terminal
SetTerminatedCount(es) == Cardinality({k \in DOMAIN es : IsSetTerminated(es[k])})

\* The events describe one check-then-report: the status was fetched again at
\* least once, nothing is reported after a fetch that found the record
\* terminated, and the last fetch that found it running is followed by the
\* report.
CheckedThenReported(es) ==
    /\ \E k \in DOMAIN es : IsGetRun(es[k])
    /\ \A k \in DOMAIN es :
         es[k] \in {"get_run FINISHED", "get_run FAILED"}
            => \A j \in DOMAIN es : j > k => ~IsSetTerminated(es[j])
    /\ \A k \in DOMAIN es :
         (es[k] = "get_run RUNNING" /\ \A j \in DOMAIN es : j > k => ~IsGetRun(es[j]))
            => \E j \in DOMAIN es : j > k /\ IsSetTerminated(es[j])

\* C1: every execution of _wait_for for a run that has a record, an interrupt
\* arriving at any point included, fetches the status again and calls
\* set_terminated exactly once when that status is not terminal and not at all
\* when it is; never twice.
C1_OneTerminalReport ==
    \A i \in Invs :
        /\ calls[i].set_terminated <= 1
        /\ LeftWaitFor(i) =>
              /\ CheckedThenReported(wait[i].events)
              /\ SetTerminatedCount(wait[i].events) = calls[i].set_terminated

\* C2: terminal status is absorbing: no step changes the status of a record
\* that is FINISHED or FAILED.
C2_TerminalAbsorbing ==
    [][\A r \in RunIds : runs[r].status \in Terminal => runs'[r].status = runs[r].status]_vars

\* C3: when run() raises after a record was created or attached, the record
\* has been marked FAILED (or was terminated already): it is not left RUNNING.
C3_FailedBeforeRaise ==
    \A i \in Invs :
        (pc[i] = "raised" /\ active_run[i] # NoRunId)
            => runs[active_run[i]].status # "RUNNING"

NoTrackingWrites(i) ==
    calls[i].create_run = 0 /\ calls[i].log_param = 0 /\ calls[i].set_tag = 0

\* The invocation's arguments must be rejected: conflicting experiment name
\* and id, parameters that fail validation, a docker project on databricks.
MustReject(i) ==
    \/ experiment[i].name # None /\ experiment[i].id # None
    \/ args[i].parameters = "invalid"
    \/ project # NoProject /\ project.docker_env # None /\ args[i].backend = "databricks"

ValidationErrors == {"experiment_conflict", "invalid_parameters", "docker_on_databricks"}

\* C4: an invocation rejected for conflicting experiment name and id, invalid
\* parameters or a docker project on databricks raises before create_run,
\* log_param or set_tag is called: it never returns and writes nothing.
C4_ValidationBeforeWrites ==
    \A i \in Invs :
        /\ exc[i] \in ValidationErrors => NoTrackingWrites(i)
        /\ (pc[i] # "idle" /\ MustReject(i)) =>
              /\ NoTrackingWrites(i)
              /\ active_run[i] = NoRunId
              /\ Exited(i) => pc[i] = "raised" /\ exc[i] \in ValidationErrors

C4_Witness ==
    \E i \in Invs : pc[i] = "raised" /\ exc[i] = "invalid_parameters"
                    /\ project.docker_env # None /\ args[i].run_id = NoRunId

\* C5: the errors for a docker_env without image, a docker project without
\* name and an unsupported backend are raised before any side effect: no
\* record created, no parameter or tag written, no build attempted.
C5_ConfigErrorsBeforeSideEffects ==
    \A i \in Invs :
        exc[i] \in {"docker_no_image", "project_no_name", "unsupported_backend"}
            => NoTrackingWrites(i) /\ calls[i].build = 0

\* C6: an interrupt received while waiting on the handle is followed by
\* cancel(), then the FAILED report unless the record is terminated already,
\* then the re-raise of the interrupt: run() never returns normally, and
\* FAILED is not written before cancel() is requested.
C6_InterruptOrder ==
    \A i \in Invs :
        wait[i].interrupted = "wait" =>
            /\ pc[i] # "returned"
            /\ \A k \in DOMAIN wait[i].events :
                 wait[i].events[k] = "FAILED"
                    => \E j \in 1..(k - 1) : wait[i].events[j] = "cancel"
            /\ pc[i] \in {"except_raise", "raised"} =>
                 wait[i].events \in {<<"cancel", "get_run RUNNING", "FAILED">>,
                                     <<"cancel", "get_run FINISHED">>,
                                     <<"cancel", "get_run FAILED">>}
            /\ pc[i] = "raised" => exc[i] = "KeyboardInterrupt"

C6_Witness ==
    \E i \in Invs : /\ wait[i].interrupted = "wait"
                    /\ pc[i] = "raised"
                    /\ wait[i].events = <<"cancel", "get_run RUNNING", "FAILED">>

\* C7: synchronous run() returns normally only after wait() reported success
\* with the record terminated; when wait() reports failure it marks the record
\* FAILED unless terminated already and raises (the ExecutionException, when
\* no interrupt is delivered) instead of returning.
C7_SynchronousReturn ==
    \A i \in Invs :
        args[i].synchronous =>
            /\ pc[i] = "returned" =>
                 /\ wait[i].result = "True"
                 /\ runs[active_run[i]].status \in Terminal
            /\ wait[i].result = "False" =>
                 /\ pc[i] # "returned"
                 /\ pc[i] = "raised" =>
                      /\ runs[active_run[i]].status \in Terminal
                      /\ CheckedThenReported(wait[i].events)
                      /\ \A k \in DOMAIN wait[i].events :
                            IsSetTerminated(wait[i].events[k]) => wait[i].events[k] = "FAILED"
                      /\ wait[i].interrupted = None => exc[i] = "ExecutionException"

C7_Witness ==
    \E i \in Invs : /\ args[i].synchronous /\ pc[i] = "raised"
                    /\ wait[i].result = "False" /\ exc[i] = "ExecutionException"
                    /\ wait[i].events = <<"get_run RUNNING", "FAILED">>

IsLocal(backend) == backend = "local" \/ backend = None

\* C8: in asynchronous mode on the local backend run() returns the handle of
\* the detached subprocess without waiting and without reporting a terminal
\* status; the wait and the report are the detached invocation's, and both
\* invocations together report at most once.
C8_AsyncDelegatesWait ==
    (~args["parent"].synchronous /\ IsLocal(args["parent"].backend)) =>
        /\ wait["parent"] = NoWait
        /\ calls["parent"].set_terminated = 0
        /\ pc["parent"] = "returned" =>
             handle["parent"] = "detached" /\ pc["child"] # "idle"
        /\ pc["child"] # "idle" => args["child"].synchronous
        /\ calls["parent"].set_terminated + calls["child"].set_terminated <= 1

C8_Witness ==
    /\ ~args["parent"].synchronous /\ pc["parent"] = "returned"
    /\ pc["child"] = "returned" /\ calls["child"].set_terminated = 1

\* C9: an invocation creates at most one record, and none when a run id is
\* supplied; the detached invocation is given the parent's run id, so both
\* together create exactly one record (none when the parent was given one).
C9_OneRecord ==
    /\ \A i \in Invs :
         /\ calls[i].create_run <= 1
         /\ Truthy(args[i].run_id) => calls[i].create_run = 0
         /\ (active_run[i] # NoRunId /\ ~Truthy(args[i].run_id)) => calls[i].create_run = 1
    /\ pc["child"] # "idle" =>
         /\ Truthy(args["child"].run_id)
         /\ args["child"].run_id = active_run["parent"]
         /\ active_run["child"] \in {NoRunId, active_run["parent"]}
         /\ calls["parent"].create_run + calls["child"].create_run
               = (IF Truthy(args["parent"].run_id) THEN 0 ELSE 1)
    /\ Cardinality({r \in RunIds : runs[r] # NoRun})
          = NumExistingRuns + calls["parent"].create_run + calls["child"].create_run

C9_Witness ==
    /\ ~Truthy(args["parent"].run_id)
    /\ active_run["child"] # NoRunId
    /\ active_run["child"] = active_run["parent"]
    /\ calls["parent"].create_run = 1

\* C10: tags are only ever added: no tag key is written twice on a record.
C10_TagsWrittenOnce ==
    \A r \in RunIds : \A k \in TagKeys : tagWrites[r][k] <= 1

----------------------------------------------------------------------------
\* _fetch_project called on its own. A project URI is a sequence of tokens:
\* single characters, and the words ".zip" and "file://" taken whole.
MaxUriLen == 4

UriTokens == {"a", "/", ":", "#", ".", ".zip", "file://"}
Uris == SeqsUpTo(UriTokens, MaxUriLen)
Versions == {None, "v1"}

\* characters a token holds
HasSlash(t) == t \in {"/", "file://"}
HasColon(t) == t \in {":", "file://"}
HasDot(t) == t \in {".", ".zip"}

\* str.find: the first position of a token, 0 when absent
Find(s, t) ==
    IF \E k \in DOMAIN s : s[k] = t
    THEN CHOOSE k \in DOMAIN s : s[k] = t /\ \A m \in 1..(k - 1) : s[m] # t
    ELSE 0

\* _GIT_URI_REGEX (line 38), ^[^/]*: a colon with no slash before it. The
\* colon of "file://" comes before its slashes.
_GIT_URI_REGEX(s) ==
    \E k \in DOMAIN s : HasColon(s[k]) /\ \A m \in 1..(k - 1) : ~HasSlash(s[m])

\* _FILE_URI_REGEX (line 39), ^file://.+
_FILE_URI_REGEX(s) == Len(s) >= 2 /\ s[1] = "file://"

\* _ZIP_URI_REGEX (line 40), .+\.zip$
_ZIP_URI_REGEX(s) == Len(s) >= 2 /\ s[Len(s)] = ".zip"

_is_file_uri(uri) == _FILE_URI_REGEX(uri)
_is_local_uri(uri) == ~_GIT_URI_REGEX(uri)
_is_zip_uri(uri) == _ZIP_URI_REGEX(uri)

\* _parse_subdirectory without the check of lines 263-264.
_parse_subdirectory_NoDotCheck(uri) ==
    LET k == Find(uri, "#")
    IN  [parsed_uri |-> IF k > 0 THEN SubSeq(uri, 1, k - 1) ELSE uri,
         subdirectory |-> IF k > 0 THEN SubSeq(uri, k + 1, Len(uri)) ELSE <<>>,
         raises |-> FALSE]

\* _parse_subdirectory lines 258-265: split at the first '#'; a non-empty
\* subdirectory holding a '.' is an error.
_parse_subdirectory(uri) ==
    LET k == Find(uri, "#")
        subdirectory == IF k > 0 THEN SubSeq(uri, k + 1, Len(uri)) ELSE <<>>
        parsed_uri == IF k > 0 THEN SubSeq(uri, 1, k - 1) ELSE uri
    IN  [parsed_uri |-> parsed_uri, subdirectory |-> subdirectory,
         raises |-> subdirectory # <<>> /\ \E n \in DOMAIN subdirectory : HasDot(subdirectory[n])]

\* The characters of a URI as path tokens: "file://" is file, :, /, /.
RECURSIVE Expand(_)
Expand(s) ==
    IF s = <<>> THEN <<>>
    ELSE (IF Head(s) = "file://" THEN <<"file", ":", "/", "/">> ELSE <<Head(s)>>)
         \o Expand(Tail(s))

\* str.split: the pieces of s between the occurrences of sep
RECURSIVE Split(_, _)
Split(s, sep) ==
    LET k == Find(s, sep)
    IN  IF k = 0 THEN <<s>>
        ELSE <<SubSeq(s, 1, k - 1)>> \o Split(SubSeq(s, k + 1, Len(s)), sep)

\* os.path.join(a, b): an absolute b replaces a; a separator is put between
\* the two unless a is empty or ends with one.
os_path_join(a, b) ==
    IF b # <<>> /\ Head(b) = "/" THEN b
    ELSE IF a = <<>> \/ HasSlash(a[Len(a)]) THEN a \o b
    ELSE a \o <<"/">> \o b

\* posixpath.normpath: empty and "." components dropped, ".." removing the
\* component before it, exactly two leading slashes kept.
RECURSIVE NormComps(_, _, _)
NormComps(comps, new_comps, initial_slashes) ==
    IF comps = <<>> THEN new_comps
    ELSE LET comp == Head(comps)
             dotdot == <<".", ".">>
         IN  IF comp = <<>> \/ comp = <<".">>
             THEN NormComps(Tail(comps), new_comps, initial_slashes)
             ELSE IF \/ comp # dotdot
                     \/ (initial_slashes = 0 /\ new_comps = <<>>)
                     \/ (new_comps # <<>> /\ new_comps[Len(new_comps)] = dotdot)
             THEN NormComps(Tail(comps), Append(new_comps, comp), initial_slashes)
             ELSE IF new_comps # <<>>
             THEN NormComps(Tail(comps), SubSeq(new_comps, 1, Len(new_comps) - 1),
                            initial_slashes)
             ELSE NormComps(Tail(comps), new_comps, initial_slashes)

normpath(path) ==
    LET starts(n) == Len(path) >= n /\ \A k \in 1..n : path[k] = "/"
        initial_slashes == IF ~starts(1) THEN 0
                           ELSE IF starts(2) /\ ~starts(3) THEN 2 ELSE 1
        joined == Join(NormComps(Split(path, "/"), <<>>, initial_slashes), "/")
        res == [k \in 1..initial_slashes |-> "/"] \o joined
    IN  IF res = <<>> THEN <<".">> ELSE res

\* os.getcwd()
cwd == <<"/", "cwd">>

\* os.path.abspath: a relative path is joined to the working directory, then
\* normalised.
abspath(path) ==
    LET p == Expand(path)
    IN  normpath(IF p # <<>> /\ Head(p) = "/" THEN p ELSE os_path_join(cwd, p))

\* lines 342-343: urlparse of a file:// URI gives the netloc up to the next
\* slash and the path from it on; the two are joined.
FilePath(file_uri) ==
    LET rest == SubSeq(Expand(file_uri), 5, Len(Expand(file_uri)))
        k == Find(rest, "/")
        netloc == IF k = 0 THEN rest ELSE SubSeq(rest, 1, k - 1)
        path == IF k = 0 THEN <<>> ELSE SubSeq(rest, k, Len(rest))
    IN  os_path_join(netloc, path)

\* tempfile.mkdtemp(): a fresh, existing directory
TempDir == <<"/", "tmp">>

FetchInit ==
    /\ pc = [i \in Invs |-> IF i = "parent" THEN "_parse_subdirectory" ELSE "idle"]
    /\ args = [i \in Invs |-> NoArgs]
    /\ experiment = [i \in Invs |-> [name |-> None, id |-> None]]
    /\ work_dir = None
    /\ project = NoProject
    /\ active_run = [i \in Invs |-> NoRunId]
    /\ command = [i \in Invs |-> NoCommand]
    /\ env_names = [i \in Invs |-> {}]
    /\ handle = [i \in Invs |-> None]
    /\ wait = [i \in Invs |-> NoWait]
    /\ exc = [i \in Invs |-> None]
    /\ runs = [r \in RunIds |-> NoRun]
    /\ condaEnvs = {}
    /\ calls = [i \in Invs |-> NoCalls]
    /\ tagWrites = [r \in RunIds |-> [k \in TagKeys |-> 0]]
    /\ conda_spec = [i \in Invs |-> ProjectCondaSpec]
    /\ \E uri \in Uris, version \in Versions, force_tempdir \in BOOLEAN :
         fetch = [NoFetch EXCEPT !.uri = uri, !.version = version,
                                 !.force_tempdir = force_tempdir]

\* what the fetcher's steps leave alone
FetchFrame ==
    UNCHANGED <<args, experiment, work_dir, project, active_run, command, env_names, handle,
                wait, runs, condaEnvs, calls, tagWrites, conda_spec>>

FetchGoto(to) == Goto("parent", to) /\ UNCHANGED exc

\* line 334
ParseSubdirectory ==
    /\ pc["parent"] = "_parse_subdirectory"
    /\ LET parsed == _parse_subdirectory(fetch.uri)
       IN  IF parsed.raises
           THEN Raise("parent", "subdirectory_dot") /\ UNCHANGED fetch
           ELSE /\ fetch' = [fetch EXCEPT !.parsed_uri = parsed.parsed_uri,
                                          !.subdirectory = parsed.subdirectory]
                /\ FetchGoto("dst_dir")
    /\ FetchFrame

\* line 335
use_temp_dst_dir(force_tempdir, parsed_uri) ==
    force_tempdir \/ _is_zip_uri(parsed_uri) \/ ~_is_local_uri(parsed_uri)

\* lines 335-336
ChooseDstDir ==
    /\ pc["parent"] = "dst_dir"
    /\ LET temp == use_temp_dst_dir(fetch.force_tempdir, fetch.parsed_uri)
       IN  fetch' = [fetch EXCEPT
                       !.use_temp_dst_dir = temp,
                       !.dst_dir = IF temp THEN TempDir ELSE fetch.parsed_uri,
                       !.effects = IF temp THEN Append(@, "mkdtemp") ELSE @]
    /\ FetchGoto("materialise")
    /\ FetchFrame

\* lines 339-346: a ZIP project; a file:// URI becomes a path, a remote
\* archive is downloaded, and the archive is unpacked into dst_dir.
FetchZip ==
    /\ pc["parent"] = "materialise"
    /\ _is_zip_uri(fetch.parsed_uri)
    /\ LET parsed_uri == IF _is_file_uri(fetch.parsed_uri) THEN FilePath(fetch.parsed_uri)
                         ELSE fetch.parsed_uri
       IN  fetch' = [fetch EXCEPT
                       !.parsed_uri = parsed_uri,
                       !.effects = @ \o (IF _is_local_uri(parsed_uri) THEN <<"unzip">>
                                         ELSE <<"_fetch_zip_repo", "unzip">>)]
    /\ FetchGoto("resolve")
    /\ FetchFrame

\* lines 347-351: a local project; a version is refused, and the directory is
\* copied when a temporary directory is used.
FetchLocal ==
    /\ pc["parent"] = "materialise"
    /\ ~_is_zip_uri(fetch.parsed_uri)
    /\ _is_local_uri(fetch.uri)
    /\ IF fetch.version # None
       THEN Raise("parent", "version_not_git") /\ UNCHANGED fetch
       ELSE /\ fetch' = [fetch EXCEPT !.effects = IF fetch.use_temp_dst_dir
                                                  THEN Append(@, "copy_tree") ELSE @]
            /\ FetchGoto("resolve")
    /\ FetchFrame

\* lines 352-354: anything else is taken for a Git URI.
FetchGit ==
    /\ pc["parent"] = "materialise"
    /\ ~_is_zip_uri(fetch.parsed_uri)
    /\ ~_is_local_uri(fetch.uri)
    /\ IF ~_GIT_URI_REGEX(fetch.parsed_uri)
       THEN Raise("parent", "AssertionError") /\ UNCHANGED fetch
       ELSE /\ fetch' = [fetch EXCEPT !.effects = Append(@, "_fetch_git_repo")]
            /\ FetchGoto("resolve")
    /\ FetchFrame

\* lines 355-358: the result is returned when it exists; a temporary directory
\* itself exists.
ResolveResult ==
    /\ pc["parent"] = "resolve"
    /\ LET res == abspath(os_path_join(fetch.dst_dir, fetch.subdirectory))
       IN  \E exists \in (IF fetch.use_temp_dst_dir /\ res = TempDir THEN {TRUE} ELSE BOOLEAN) :
             IF exists
             THEN /\ fetch' = [fetch EXCEPT !.res = res, !.exists = TRUE]
                  /\ FetchGoto("returned")
             ELSE Raise("parent", "subdirectory_not_found") /\ UNCHANGED fetch
    /\ FetchFrame

NextFetch ==
    \/ ParseSubdirectory
    \/ ChooseDstDir
    \/ FetchZip
    \/ FetchLocal
    \/ FetchGit
    \/ ResolveResult

SpecFetch == FetchInit /\ [][NextFetch]_vars

----------------------------------------------------------------------------
\* Number of `conda env create` commands issued for an environment name.
CreatesFor(name) ==
    LET n(i) == IF project_env_name(i) = name THEN calls[i].conda_create ELSE 0
    IN  n("parent") + n("child")

ProvisionEnded(i) == pc[i] \in {"_get_conda_command", "raised"}

\* C11: when _get_or_create_conda_env runs twice concurrently for the same spec
\* and env_id, whose environment is not in the registry, then under every
\* interleaving of the two list and create steps exactly one create is issued
\* for the name and the registry holds the name afterwards.
C11_ConcurrentOneCreate ==
    (/\ project_env_name("parent") = project_env_name("child")
     /\ \A i \in Invs : ProvisionEnded(i) /\ exc[i] # "conda_not_found")
    => /\ CreatesFor(project_env_name("parent")) = 1
       /\ project_env_name("parent") \in condaEnvs

\* A call of invocation i has returned the environment name (line 462).
ProvisionReturned(i) ==
    \/ pc[i] = "_get_conda_command"
    \/ pc[i] = "idle" /\ calls[i].provision > 0

\* C12: provisioning is deterministic and idempotent when the calls are made
\* one after another: equal file contents and env_id give the same environment
\* name; a call that finds the name in the listing issues no create; and once
\* any call for a name has returned, exactly one create has been issued for it,
\* however many calls follow.
C12_SequentialIdempotent ==
    /\ [](\A i, j \in Invs :
            /\ conda_spec[i] = conda_spec[j] => project_env_name(i) = project_env_name(j)
            /\ CreatesFor(project_env_name(i)) <= 1
            /\ ProvisionReturned(i) =>
                  /\ CreatesFor(project_env_name(i)) = 1
                  /\ project_env_name(i) \in condaEnvs)
    /\ [][\A i \in Invs :
            (pc[i] = "conda_env_create" /\ project_env_name(i) \in env_names[i])
            => /\ calls'[i].conda_create = calls[i].conda_create
               /\ condaEnvs' = condaEnvs]_vars

\* both invocations provisioned the same environment, three calls or more in
\* all, the later ones finding it in the listing
C12_Witness ==
    /\ conda_spec["parent"] = conda_spec["child"]
    /\ \A i \in Invs : pc[i] = "idle" /\ project_env_name(i) \in env_names[i]
    /\ calls["parent"].provision + calls["child"].provision >= 3
    /\ CreatesFor(project_env_name("parent")) = 1

----------------------------------------------------------------------------
\* The invocation has launched its command: the entry point's process
\* (synchronous mode) or the detached `mlflow run` subprocess (asynchronous).
Launched(i) == handle[i] \in {"process", "detached"}

\* The environments a command activates.
Activated(fragments) ==
    {fragments[k][3] : k \in {n \in DOMAIN fragments :
                                Len(fragments[n]) = 3 /\ fragments[n][1] = "source"}}

\* How the invocation settled its environment before building the command.
EnvContainer(i) == project.docker_env # None
EnvPackage(i) == project.docker_env = None /\ args[i].use_conda
EnvSkipped(i) == project.docker_env = None /\ ~args[i].use_conda

\* C13: the pipeline runs in order (fetch, validate, resolve the record,
\* provision, build the command, launch), and in both modes the command is
\* launched only after exactly one environment was resolved, its creation
\* complete, or skipped; no entry point starts while the environment it
\* activates is absent from the registry.
C13_LaunchAfterEnvironment ==
    \A i \in Invs :
      /\ active_run[i] # NoRunId => work_dir # None /\ project # NoProject
      /\ (calls[i].provision > 0 \/ calls[i].build > 0 \/ command[i].fragments # <<>>)
            => active_run[i] # NoRunId
      /\ Launched(i) =>
            /\ active_run[i] # NoRunId
            /\ EnvContainer(i) => calls[i].build = 1 /\ calls[i].provision = 0
            /\ EnvPackage(i) => /\ calls[i].build = 0 /\ calls[i].provision = 1
                                /\ project_env_name(i) \in condaEnvs
            /\ EnvSkipped(i) => calls[i].build = 0 /\ calls[i].provision = 0
      /\ Activated(command[i].fragments) \subseteq
            (IF EnvPackage(i) THEN {project_env_name(i)} ELSE {})
      /\ handle[i] = "process" => Activated(command[i].fragments) \subseteq condaEnvs

\* an asynchronous run with a package environment: the parent created it, the
\* `mlflow run` subprocess found it and started the entry point
C13_Witness ==
    /\ handle["parent"] = "detached" /\ handle["child"] = "process"
    /\ EnvPackage("parent") /\ EnvPackage("child")
    /\ calls["parent"].conda_create = 1 /\ calls["child"].conda_create = 0
    /\ Activated(command["child"].fragments) = {project_env_name("child")}

----------------------------------------------------------------------------
EntryPointWords == Head(_get_entry_point_command)

\* C14: the composed command is the entry-point command alone when no
\* environment is used; the docker run fragments and the entry-point command
\* joined by single spaces when the project declares a docker environment, which
\* takes precedence over conda (nothing is provisioned); the activation fragment
\* and the entry-point command joined by " && " when conda is used, so that bash
\* does not run the entry point when the activation fails.
C14_CommandComposition ==
    \A i \in Invs : command[i].joined # <<>> =>
      /\ EnvSkipped(i) => command[i].joined = EntryPointWords
      /\ EnvContainer(i) =>
            /\ command[i].joined =
                 <<"docker", " ", "run", " ", "--rm", " ", "-e", " ", "env_vars", " ",
                   "tag_name", " ">> \o EntryPointWords
            /\ calls[i].provision = 0 /\ calls[i].conda_create = 0
      /\ EnvPackage(i) =>
            /\ command[i].joined =
                 <<"source", "activate", project_env_name(i), " && ">> \o EntryPointWords
            /\ BashRuns(command[i].joined, FALSE) =
                 << <<"source", "activate", project_env_name(i)>> >>
            /\ BashRuns(command[i].joined, TRUE) =
                 << <<"source", "activate", project_env_name(i)>>, EntryPointWords >>

\* the entry point of a conda run started by bash behind the activation
C14_Witness ==
    /\ handle["parent"] = "process" /\ EnvPackage("parent")
    /\ Len(SplitAnd(command["parent"].joined)) = 2
    /\ project_env_name("parent") \in condaEnvs

----------------------------------------------------------------------------
\* The text of a reference after its first '#', empty when it has none.
AfterHash(uri) ==
    IF \E k \in DOMAIN uri : uri[k] = "#"
    THEN SubSeq(uri, Find(uri, "#") + 1, Len(uri))
    ELSE <<>>

DottedSubdirectory(uri) == \E n \in DOMAIN AfterHash(uri) : HasDot(AfterHash(uri)[n])

\* C15: for a reference of any kind, when the text after the first '#' holds a
\* '.', parsing raises and the fetcher materialises nothing (no temporary
\* directory, no copy, no fetch, no result); a reference without '#' or with an
\* empty subdirectory is never rejected by this rule.
C15_DottedSubdirectoryRejected ==
    /\ (DottedSubdirectory(fetch.uri) /\ pc["parent"] # "_parse_subdirectory")
         => /\ pc["parent"] = "raised" /\ exc["parent"] = "subdirectory_dot"
            /\ fetch.effects = <<>> /\ fetch.dst_dir = <<>> /\ fetch.res = <<>>
    /\ exc["parent"] = "subdirectory_dot" => DottedSubdirectory(fetch.uri)

\* a Git reference with a version, rejected for its subdirectory
C15_Witness ==
    /\ exc["parent"] = "subdirectory_dot" /\ pc["parent"] = "raised"
    /\ _GIT_URI_REGEX(fetch.uri) /\ fetch.version # None
    /\ Find(fetch.uri, "#") > 1

----------------------------------------------------------------------------
\* The reference passed the parser with a non-empty subdirectory.
AcceptedWithSubdirectory ==
    /\ pc["parent"] # "_parse_subdirectory"
    /\ exc["parent"] # "subdirectory_dot"
    /\ _parse_subdirectory(fetch.uri).subdirectory # <<>>

\* C16: for every accepted reference with a non-empty subdirectory, base, '#'
\* and subdirectory put together give the reference back, the fetcher derives
\* the same kind (local or not) from the full reference as from the base, and
\* so its assertion that a non-local reference is a Git URI never fails.
C16_KindAgreement ==
    AcceptedWithSubdirectory =>
      LET parsed == _parse_subdirectory(fetch.uri)
      IN  /\ parsed.parsed_uri \o <<"#">> \o parsed.subdirectory = fetch.uri
          /\ _is_local_uri(fetch.uri) = _is_local_uri(parsed.parsed_uri)
          /\ exc["parent"] # "AssertionError"

----------------------------------------------------------------------------
\* The base of the reference is a path on this machine and no Git URI: a
\* plain directory, or an archive given by its path.
LocalNonGit(uri) == _is_local_uri(_parse_subdirectory(uri).parsed_uri)

\* C17: whenever a version is requested and the reference is a local, non-Git
\* one (a plain local directory or a local archive path), the fetcher fails
\* and returns no working directory; a version is accepted only for Git
\* references.
C17_VersionOnlyForGit ==
    (fetch.version # None /\ LocalNonGit(fetch.uri))
    => /\ pc["parent"] # "returned"
       /\ fetch.res = <<>>

----------------------------------------------------------------------------
Base(uri) == _parse_subdirectory(uri).parsed_uri

\* a plain local path: its base is neither an archive nor a Git URI
PlainLocal(uri) == _is_local_uri(Base(uri)) /\ ~_is_zip_uri(Base(uri))

FetchEnded == pc["parent"] \in {"returned", "raised"}

\* C18: the fetcher makes a temporary directory exactly when the reference is
\* an archive or a Git URI or force_tempdir is set; for a plain local path
\* without forcing and without version it makes no temporary directory, copies
\* nothing, and returns the absolute path of base joined with subdirectory; it
\* returns only a path that exists, and raises when the path does not exist.
C18_TempDirAndResult ==
    /\ pc["parent"] \notin {"_parse_subdirectory", "dst_dir"} /\ exc["parent"] # "subdirectory_dot"
         => ((\E k \in DOMAIN fetch.effects : fetch.effects[k] = "mkdtemp")
             <=> (fetch.force_tempdir \/ ~PlainLocal(fetch.uri)))
    /\ (/\ FetchEnded /\ exc["parent"] # "subdirectory_dot"
        /\ PlainLocal(fetch.uri) /\ ~fetch.force_tempdir /\ fetch.version = None)
         => /\ fetch.effects = <<>>
            /\ pc["parent"] = "returned" =>
                  fetch.res = abspath(os_path_join(Base(fetch.uri), AfterHash(fetch.uri)))
            /\ pc["parent"] = "raised" => exc["parent"] = "subdirectory_not_found"
    /\ pc["parent"] = "returned" => fetch.exists /\ fetch.res # <<>>
    /\ pc["parent"] # "returned" => fetch.res = <<>>
====
